---- MODULE Spec2Model ----
(***************************************************************************)
(* Model of the MCP / OpenAI cookbook clients.                             *)
(*                                                                         *)
(*   src/2_open_ai_integration/client.py  MCPOpenAIClient and its main()   *)
(*   src/1_simple_server/client-stdio.py  the plain stdio client main()    *)
(*   src/1_simple_server/server.py        the Calculator tool registry     *)
(*                                                                         *)
(* One client object is driven either by main() (mode "main"), by an       *)
(* arbitrary caller that invokes connect_to_server / process_query /       *)
(* cleanup in any order (mode "api"), or by the stdio script (mode         *)
(* "stdio").  Every await of the code is one step of the model.            *)
(***************************************************************************)
EXTENDS Integers, Sequences, FiniteSets, TLC

-----------------------------------------------------------------------------
(* Bounds of the model *)

\* longest tool_calls list the model service returns in one message
MaxCalls == 2
\* operations an arbitrary caller invokes on one client (mode "api")
MaxOps == 3
\* largest integer argument of a tool call
MaxArg == 9
\* longest descriptor list a server reports (unit runs of the adapter)
MaxTools == 2
\* callers that may have a call_tool pending at the same time
MaxCallers == 2
\* requests one session sends
MaxRequests == 3
\* Python's None
None == "None"

-----------------------------------------------------------------------------
(* server.py: the tool registry *)

\* the tools registered with @mcp.tool
ToolNames == {"MyCalculator", "MySecondCalculator"}

\* parameters of each handler's signature
ToolParams(name) ==
  IF name = "MyCalculator" THEN {"a", "b"} ELSE {"a"}

\* the handler with the wrong operator
addProduct(a, b) == a * b

\* def add(a, b): return a + b
add(a, b) == a + b

\* the handler adding the wrong constant
add_two(a) == a + 2

\* def add_three(a): return a + 3
add_three(a) == a + 3

Digit(d) ==
  CASE d = 0 -> "0" [] d = 1 -> "1" [] d = 2 -> "2" [] d = 3 -> "3" [] d = 4 -> "4"
    [] d = 5 -> "5" [] d = 6 -> "6" [] d = 7 -> "7" [] d = 8 -> "8" [] d = 9 -> "9"

RECURSIVE IntToText(_)
\* the decimal text of a non-negative handler result
IntToText(n) ==
  IF n < 10 THEN Digit(n) ELSE IntToText(n \div 10) \o Digit(n % 10)

\* A tool result: an ordered list of text blocks and the isError flag
ToolResult(text, err) ==
  [content |-> <<[type |-> "text", text |-> text]>>, isError |-> err]

\* an unregistered name served by a registered handler
ServerInvokeFallback(name, args) ==
  IF name = "MyCalculator" /\ DOMAIN args = {"a", "b"}
    THEN ToolResult(IntToText(add(args["a"], args["b"])), FALSE)
  ELSE ToolResult(IntToText(add_three(args["a"])), FALSE)

\* The registry's answer to an invocation request (name, arguments).  An
\* unregistered name and arguments that do not fit the handler's signature
\* come back as an isError result, a registered call as the handler's
\* return value in one text block.
ServerInvoke(name, args) ==
  IF name \notin ToolNames THEN ToolResult("Unknown tool", TRUE)
  ELSE IF \E p \in ToolParams(name) : p \notin DOMAIN args
    THEN ToolResult("Invalid arguments", TRUE)
  ELSE IF name = "MyCalculator"
    THEN ToolResult(IntToText(add(args["a"], args["b"])), FALSE)
  ELSE ToolResult(IntToText(add_three(args["a"])), FALSE)

\* descriptors the registry reports to a discovery request
ToolDescriptor(name) ==
  [name |-> name, description |-> "A calculator tool", inputSchema |-> ToolParams(name)]

ServerListTools == <<ToolDescriptor("MyCalculator"), ToolDescriptor("MySecondCalculator")>>

-----------------------------------------------------------------------------
(* The model service (external): what it may put into an assistant message *)

\* query of main() and one more a caller may ask
Queries == {"What is the weather in Paris?", "What is 1 + 2?"}

\* text content of an assistant message (None when absent)
Contents == {None, "final text"}

\* tool_call.function.arguments is JSON text
JsonOfAB(a, b) == "{\"a\": " \o IntToText(a) \o ", \"b\": " \o IntToText(b) \o "}"

JsonOfA(a) == "{\"a\": " \o IntToText(a) \o "}"

Malformed == "{\"a\": 1,"

ArgValues == 0..MaxArg

ArgTexts == {JsonOfAB(1, 2), JsonOfA(1), Malformed}

\* tool names the model may ask for: the registered ones and one that is not
AskedNames == ToolNames \cup {"NoSuchTool"}

\* json.loads(text): the mapping the text denotes, or the error it raises
JsonParse(text) ==
  IF \E x \in ArgValues, y \in ArgValues : text = JsonOfAB(x, y)
    THEN LET xy == CHOOSE xy \in ArgValues \X ArgValues : text = JsonOfAB(xy[1], xy[2])
         IN  [a |-> xy[1], b |-> xy[2]]
  ELSE IF \E x \in ArgValues : text = JsonOfA(x)
    THEN LET v == CHOOSE x \in ArgValues : text = JsonOfA(x) IN [a |-> v]
  ELSE [JSONDecodeError |-> 0]

\* the JSON texts of the argument mappings within the bounds
JsonTexts ==
  { JsonOfAB(x, y) : x \in ArgValues, y \in ArgValues } \cup { JsonOfA(x) : x \in ArgValues }

\* JsonParse on the texts that denote a mapping, evaluated once
JsonTable == [t \in JsonTexts |-> JsonParse(t)]

JsonLoads(text) ==
  IF text \in JsonTexts THEN JsonTable[text] ELSE [JSONDecodeError |-> 0]

\* json.loads raises JSONDecodeError on text that is not JSON
JsonRaises(text) == "JSONDecodeError" \in DOMAIN JsonLoads(text)

\* ids of the tool calls of one message: unique within the message
IdSeqs(n) == { [k \in 1..n |-> k], [k \in 1..n |-> n + 1 - k] }

\* the tool_calls lists of length n the model service may return
ToolCallLists(n) ==
  { [k \in 1..n |-> [id |-> ids[k], name |-> na[k][1], arguments |-> na[k][2]]] :
      ids \in IdSeqs(n), na \in [1..n -> AskedNames \X ArgTexts] }

AssistantMessages ==
  { [role |-> "assistant", content |-> c, tool_call_id |-> 0, tool_calls |-> tc] :
      c \in Contents, tc \in UNION { ToolCallLists(n) : n \in 0..MaxCalls } }

UserMessage(q) ==
  [role |-> "user", content |-> q, tool_call_id |-> 0, tool_calls |-> <<>>]

ToolMessage(id, text) ==
  [role |-> "tool", content |-> text, tool_call_id |-> id, tool_calls |-> <<>>]

-----------------------------------------------------------------------------
(* State *)

VARIABLES
  mode,         \* who drives the client: "main", "api" or "stdio"
  mstep,        \* position of main() around its try/finally
  mainExc,      \* exception main() re-raises after its finally (None if none)
  opsDone,      \* operations the caller has started
  pc,           \* position inside the running operation, "idle" between them
  outcome,      \* how the last operation ended: returned value or exception
  res,          \* every context manager entered so far: kind and state
  exit_stack,   \* self.exit_stack: ids of res, in order of entry
  released,     \* ids of res in the order they were released
  mcp_session,  \* self.mcp_session: 0 is None, else an id of res
  stdio,        \* self.stdio / self.write: 0 is None, else an id of res
  query,        \* process_query: the query argument
  mcp_tools,    \* process_query: the adapted tool schemas
  messages,     \* process_query: the conversation
  i,            \* process_query: index of the tool call the loop is at
  pending,      \* the call_tool request in flight
  final_response, \* process_query: the second response of the model service
  modelCalls,   \* requests sent to the model service by the running query
  toolLog,      \* call_tool requests sent by the running operation
  printed,      \* texts the stdio script has printed from tool results
  result,       \* process_query: the result of the last call_tool
  discoveries,  \* list_tools requests sent by the running operation
  tools_result, \* the result of the last list_tools
  registry,     \* server: the descriptors of the registered tools
  registered,   \* trace: when the registry changed (operation, model calls made)
  nextId,       \* session: the correlation id of the next request
  callers,      \* session: per caller, its call_tool in progress or ended
  waiting,      \* session: the ids whose response is awaited
  served,       \* server: the requests received and not yet answered
  wire,         \* responses on their way to the session
  discarded,    \* session: the responses dropped on arrival
  prevOp        \* the operation that ended before the last one started

\* everything but the session's wire
progVars == <<mode, mstep, mainExc, opsDone, pc, outcome, res, exit_stack, released,
              mcp_session, stdio, query, mcp_tools, messages, i, pending,
              final_response, modelCalls, toolLog, printed, result, discoveries,
              tools_result, registry, registered, prevOp>>

\* the session's wire: requests and responses by correlation id
wireVars == <<nextId, callers, waiting, served, wire, discarded>>

vars == <<mode, mstep, mainExc, opsDone, pc, outcome, res, exit_stack, released,
          mcp_session, stdio, query, mcp_tools, messages, i, pending,
          final_response, modelCalls, toolLog, printed, result, discoveries,
          tools_result, registry, registered, prevOp, nextId, callers, waiting,
          served, wire, discarded>>

\* what only discovery, the server and the start of an operation change
restVars == <<mode, tools_result, registry, registered, wireVars, prevOp>>

clientVars == <<res, exit_stack, released, mcp_session, stdio>>

queryVars == <<query, mcp_tools, messages, i, pending, final_response,
               modelCalls, toolLog, printed, result, discoveries>>

Callers == 1..MaxCallers

\* no response yet
NoResponse == [id |-> 0, result |-> [content |-> <<>>, isError |-> FALSE]]

\* a caller that has not called
NoRequest == [state |-> "idle", id |-> 0, name |-> None, arguments |-> <<>>,
              response |-> NoResponse]

\* nothing sent yet: ids start at 1
WireInit ==
  /\ nextId = 1
  /\ callers = [c \in Callers |-> NoRequest]
  /\ waiting = {}
  /\ served = {}
  /\ wire = {}
  /\ discarded = {}

\* no result yet
NoResult == [content |-> <<>>, isError |-> FALSE]

NoCall == [active |-> FALSE, k |-> 0, fate |-> "none", timed |-> FALSE]

\* no message yet
NoMessage == [role |-> "none", content |-> None, tool_call_id |-> 0, tool_calls |-> <<>>]

NoOutcome == [op |-> "none", kind |-> "none", val |-> None]

\* MCPOpenAIClient.__init__ and the locals of a query not yet started
Init ==
  /\ mode \in {"main", "api", "stdio"}
  /\ mstep = "start"
  /\ mainExc = None
  /\ opsDone = 0
  /\ pc = "idle"
  /\ outcome = NoOutcome
  /\ res = <<>>
  /\ exit_stack = <<>>
  /\ released = <<>>
  /\ mcp_session = 0
  /\ stdio = 0
  /\ query = None
  /\ mcp_tools = <<>>
  /\ messages = <<>>
  /\ i = 0
  /\ pending = NoCall
  /\ final_response = NoMessage
  /\ modelCalls = <<>>
  /\ toolLog = <<>>
  /\ printed = <<>>
  /\ result = NoResult
  /\ discoveries = 0
  /\ tools_result = <<>>
  /\ registry = ServerListTools
  /\ registered = <<>>
  /\ WireInit
  /\ prevOp = "none"

\* the locals and the trace of the previous process_query are gone
ResetQuery ==
  /\ mcp_tools' = <<>>
  /\ messages' = <<>>
  /\ i' = 0
  /\ pending' = NoCall
  /\ final_response' = NoMessage
  /\ modelCalls' = <<>>
  /\ toolLog' = <<>>
  /\ printed' = <<>>
  /\ result' = NoResult
  /\ discoveries' = 0

\* the caller may start operation op now: main() in its fixed order, an
\* arbitrary caller any operation while it has operations left
MayStart(op) ==
  /\ pc = "idle"
  /\ \/ mode = "api" /\ opsDone < MaxOps /\ op \in {"connect", "query", "cleanup"}
     \/ mode # "api" /\ mstep = "start" /\ op = "connect"
     \/ mode = "main" /\ mstep = "query" /\ op = "query"
     \/ mode = "stdio" /\ mstep = "query" /\ op = "calls"
     \/ mode # "api" /\ mstep = "finally" /\ op = "cleanup"

\* operation op ends, by return or by an exception leaving it
Finish(op, kind, val) ==
  /\ pc' = "idle"
  /\ outcome' = [op |-> op, kind |-> kind, val |-> val]
  /\ mstep' = IF mode = "api" THEN mstep
              ELSE IF op = "cleanup" THEN "exit"
              ELSE IF op = "connect" /\ kind = "return" THEN "query"
              ELSE "finally"
  /\ mainExc' = IF mode # "api" /\ kind = "raise" THEN val ELSE mainExc

SessionState(s) == IF s = 0 THEN "Unconnected" ELSE res[s].state

\* the None guard left out
NoSessionUnchecked == FALSE

\* if self.mcp_session is None
NoSession == mcp_session = 0

-----------------------------------------------------------------------------
(* The session as the client sees it *)

\* what becomes of a call_tool request on the wire: the server's response
\* arrives, no response ever arrives, or the transport is lost
Fates == {"respond", "silent", "lost"}

\* only the tools not reported by the listing before
SessionListToolsNewOnly(s) ==
  IF SessionState(s) = "Ready" /\ tools_result # registry THEN registry ELSE <<>>

\* list_tools() is answered only on a session that is Ready
SessionListTools(s) ==
  IF SessionState(s) = "Ready" THEN registry ELSE <<>>

SessionListRaises(s) == SessionState(s) # "Ready"

\* an absent description passed on as None
AdaptToolRaw(tool) ==
  [type |-> "function",
   function |-> [name |-> tool.name,
                 description |-> tool.description,
                 parameters |-> tool.inputSchema]]

\* the tools in OpenAI format: name, description or "", inputSchema verbatim
AdaptTool(tool) ==
  [type |-> "function",
   function |-> [name |-> tool.name,
                 description |-> IF tool.description = None THEN "" ELSE tool.description,
                 parameters |-> tool.inputSchema]]

AdaptTools(tools) == [k \in 1..Len(tools) |-> AdaptTool(tools[k])]

-----------------------------------------------------------------------------
(* connect_to_server (client.py 37-65); client-stdio.py 17-26 is the same   *)
(* sequence written with two nested async with blocks                      *)

StartConnect ==
  /\ MayStart("connect")
  /\ pc' = "c_transport"
  /\ opsDone' = opsDone + 1
  /\ query' = None
  /\ ResetQuery
  /\ prevOp' = outcome.op
  /\ UNCHANGED <<mode, tools_result, registry, registered, wireVars, mstep, mainExc, outcome, clientVars>>

\* stdio_client(server_params) entered on the exit stack: the server process
\* is spawned, or the spawn fails and the exception leaves connect_to_server
EnterTransport ==
  /\ pc = "c_transport"
  /\ \/ /\ res' = Append(res, [kind |-> "transport", state |-> "open"])
        /\ exit_stack' = Append(exit_stack, Len(res) + 1)
        /\ stdio' = Len(res) + 1
        /\ pc' = "c_session"
        /\ UNCHANGED <<mstep, mainExc, outcome, released, mcp_session>>
     \/ /\ Finish("connect", "raise", "TransportError")
        /\ UNCHANGED clientVars
  /\ UNCHANGED <<restVars, opsDone, queryVars>>

\* ClientSession(self.stdio, self.write) entered on the exit stack
EnterSession ==
  /\ pc = "c_session"
  /\ res' = Append(res, [kind |-> "session", state |-> "Initializing"])
  /\ exit_stack' = Append(exit_stack, Len(res) + 1)
  /\ mcp_session' = Len(res) + 1
  /\ pc' = "c_init"
  /\ UNCHANGED <<restVars, mstep, mainExc, opsDone, outcome, released, stdio, queryVars>>

\* await self.mcp_session.initialize(): acknowledged, or the handshake fails
Initialize ==
  /\ pc = "c_init"
  /\ \/ /\ res' = [res EXCEPT ![mcp_session].state = "Ready"]
        /\ pc' = "c_list"
        /\ UNCHANGED <<mstep, mainExc, outcome>>
     \/ /\ Finish("connect", "raise", "HandshakeFailed")
        /\ UNCHANGED res
  /\ UNCHANGED <<restVars, opsDone, exit_stack, released, mcp_session, stdio, queryVars>>

\* list_tools() and the printing of the tools; connect_to_server returns
ListToolsAtConnect ==
  /\ pc = "c_list"
  /\ tools_result' = SessionListTools(mcp_session)
  /\ discoveries' = discoveries + 1
  /\ Finish("connect", "return", None)
  /\ UNCHANGED <<mode, registry, registered, wireVars, prevOp, opsDone, clientVars, query, mcp_tools,
                 messages, i, pending, final_response, modelCalls, toolLog,
                 printed, result>>

-----------------------------------------------------------------------------
(* cleanup (client.py 149-151); the exit of the async with blocks of       *)
(* client-stdio.py 17-18                                                   *)

\* the contexts exited in the order they were entered
ReverseKept(seq) == seq

RECURSIVE Reverse(_)
\* the order in which an exit stack unwinds: last entered, first exited
Reverse(seq) ==
  IF seq = <<>> THEN <<>> ELSE Append(Reverse(Tail(seq)), Head(seq))

\* a released transport is closed, a released session is Closed
Release(r) ==
  [r EXCEPT !.state = IF r.kind = "session" THEN "Closed" ELSE "closed"]

InStack(k) == \E j \in 1..Len(exit_stack) : exit_stack[j] = k

\* AsyncExitStack.aclose(): every context entered is exited, last entered
\* first, and the stack is left empty
Cleanup ==
  /\ MayStart("cleanup")
  /\ opsDone' = opsDone + 1
  /\ released' = released \o Reverse(exit_stack)
  /\ res' = [k \in 1..Len(res) |-> IF InStack(k) THEN Release(res[k]) ELSE res[k]]
  /\ exit_stack' = <<>>
  /\ Finish("cleanup", "return", None)
  /\ query' = None
  /\ ResetQuery
  /\ prevOp' = outcome.op
  /\ UNCHANGED <<mode, tools_result, registry, registered, wireVars, mcp_session, stdio>>

-----------------------------------------------------------------------------
(* process_query (client.py 88-147) *)

MainQuery == "What is the weather in Paris?"

StartQuery ==
  /\ MayStart("query")
  /\ \E q \in Queries :
       /\ mode = "main" => q = MainQuery
       /\ query' = q
  /\ ResetQuery
  /\ pc' = "q_tools"
  /\ opsDone' = opsDone + 1
  /\ prevOp' = outcome.op
  /\ UNCHANGED <<mode, tools_result, registry, registered, wireVars, mstep, mainExc, outcome, clientVars>>

\* get_mcp_tools: RuntimeError when self.mcp_session is None, else the
\* session's tools in OpenAI format
GetMcpTools ==
  /\ pc = "q_tools"
  /\ IF NoSession
       THEN /\ Finish("query", "raise", "SessionNotInitialized")
            /\ UNCHANGED <<mcp_tools, tools_result, discoveries>>
     ELSE IF SessionListRaises(mcp_session)
       THEN /\ Finish("query", "raise", "NotReady")
            /\ discoveries' = discoveries + 1
            /\ UNCHANGED <<mcp_tools, tools_result>>
     ELSE /\ tools_result' = SessionListTools(mcp_session)
          /\ discoveries' = discoveries + 1
          /\ mcp_tools' = AdaptTools(tools_result')
          /\ pc' = "q_model1"
          /\ UNCHANGED <<mstep, mainExc, outcome>>
  /\ UNCHANGED <<mode, registry, registered, wireVars, prevOp, opsDone, clientVars, query, messages, i,
                 pending, final_response, modelCalls, toolLog, printed, result>>

\* a chat.completions.create request as the service sees it, and whether
\* the service failed on it
ModelRequest(msgs, tools, choice, failed) ==
  [messages |-> msgs, tools |-> tools, tool_choice |-> choice, failed |-> failed]

\* the exception swallowed and None returned
OnModelErrorSwallowed == Finish("query", "return", None)

\* no try/except around either create(): the exception leaves process_query
OnModelError == Finish("query", "raise", "ModelCallFailed")

\* the direct answer dropped
DirectAnswerNone(m) == None

\* return assistant_message.content
DirectAnswer(m) == m.content

\* return final_response.choices[0].message.content
FinalAnswer(m) == m.content

\* the second request left on "auto"
FinalToolChoiceAuto == "auto"

\* tool_choice of the second request
FinalToolChoice == "none"

\* the initial chat.completions.create with tool_choice "auto"; the
\* conversation is built from the query and the assistant message; without
\* tool calls the message's content is returned
ModelCall1 ==
  /\ pc = "q_model1"
  /\ \/ /\ modelCalls' = Append(modelCalls,
                   ModelRequest(<<UserMessage(query)>>, mcp_tools, "auto", TRUE))
        /\ OnModelError
        /\ UNCHANGED <<messages, i>>
     \/ \E m \in AssistantMessages :
          /\ modelCalls' = Append(modelCalls,
                   ModelRequest(<<UserMessage(query)>>, mcp_tools, "auto", FALSE))
          /\ messages' = <<UserMessage(query), m>>
          /\ IF m.tool_calls = <<>>
               THEN /\ Finish("query", "return", DirectAnswer(m))
                    /\ UNCHANGED i
             ELSE IF NoSession
               THEN /\ Finish("query", "raise", "SessionNotInitialized")
                    /\ UNCHANGED i
             ELSE /\ pc' = "q_loop"
                  /\ i' = 1
                  /\ UNCHANGED <<mstep, mainExc, outcome>>
  /\ UNCHANGED <<restVars, opsDone, clientVars, query, mcp_tools, pending,
                 final_response, toolLog, printed, result, discoveries>>

\* assistant_message.tool_calls
tool_calls == messages[2].tool_calls

\* the list walked from its end
ToolCallAtReversed(k) == tool_calls[Len(tool_calls) + 1 - k]

\* for tool_call in assistant_message.tool_calls: the k-th turn's tool_call
ToolCallAt(k) == tool_calls[k]

\* the loop left after its first turn
MoreCallsNever(k) == FALSE

\* the for loop has a turn after the k-th
MoreCalls(k) == k < Len(tool_calls)

\* one turn of the for loop up to its await: json.loads of the arguments,
\* then call_tool(name, arguments) is sent, with no read timeout
CallTool ==
  /\ pc = "q_loop"
  /\ LET tool_call == ToolCallAt(i) IN
     IF JsonRaises(tool_call.arguments)
       THEN /\ Finish("query", "raise", "JSONDecodeError")
            /\ UNCHANGED <<pending, toolLog>>
     ELSE /\ \E f \in Fates :
               pending' = [active |-> TRUE, k |-> i, fate |-> f, timed |-> FALSE]
          /\ toolLog' = Append(toolLog, [id |-> tool_call.id,
                                         name |-> tool_call.name,
                                         arguments |-> JsonLoads(tool_call.arguments)])
          /\ pc' = "q_wait"
          /\ UNCHANGED <<mstep, mainExc, outcome>>
  /\ UNCHANGED <<restVars, opsDone, clientVars, query, mcp_tools, messages, i,
                 final_response, modelCalls, printed, result, discoveries>>

\* an error result replaced by a fixed text
ResultTextMasked(r) == IF r.isError THEN "Error" ELSE r.content[1].text

\* result.content[0].text
ResultText(r) == r.content[1].text

\* the message put in the place of the last one
AppendedOverLast(conv, m) == [conv EXCEPT ![Len(conv)] = m]

\* messages.append(m)
Appended(conv, m) == Append(conv, m)

\* the request in flight
Sent == toolLog[Len(toolLog)]

\* the result arrives: its first text block is appended as the tool message
\* of this tool call, and the loop goes on or ends
ToolResponse ==
  /\ pc = "q_wait"
  /\ pending.fate = "respond"
  /\ result' = ServerInvoke(Sent.name, Sent.arguments)
  /\ messages' = Appended(messages, ToolMessage(ToolCallAt(i).id, ResultText(result')))
  /\ pending' = NoCall
  /\ IF MoreCalls(i)
       THEN i' = i + 1 /\ pc' = "q_loop"
       ELSE i' = i /\ pc' = "q_model2"
  /\ UNCHANGED <<restVars, mstep, mainExc, opsDone, outcome, clientVars, query,
                 mcp_tools, final_response, modelCalls, toolLog, printed, discoveries>>

\* the tools listed again for the second request
SecondCallToolsRelisted == AdaptTools(SessionListTools(mcp_session))

\* tools=tools of the second request: the list of the first one
SecondCallTools == mcp_tools

\* the responses the model service may give to the second request
FinalMessages ==
  { [role |-> "assistant", content |-> c, tool_call_id |-> 0, tool_calls |-> tc] :
      c \in Contents, tc \in ToolCallLists(0) \cup
                             {<<[id |-> 1, name |-> "MyCalculator",
                                 arguments |-> JsonOfAB(1, 2)]>>} }

\* the final chat.completions.create with tool_choice "none"; the content of
\* its message is returned
ModelCall2 ==
  /\ pc = "q_model2"
  /\ \/ /\ modelCalls' = Append(modelCalls,
                   ModelRequest(messages, SecondCallTools, FinalToolChoice, TRUE))
        /\ OnModelError
        /\ UNCHANGED final_response
     \/ \E m \in FinalMessages :
          /\ modelCalls' = Append(modelCalls,
                   ModelRequest(messages, SecondCallTools, FinalToolChoice, FALSE))
          /\ final_response' = m
          /\ Finish("query", "return", FinalAnswer(m))
  /\ UNCHANGED <<restVars, opsDone, clientVars, query, mcp_tools, messages, i,
                 pending, toolLog, printed, result, discoveries>>

\* the wait of call_tool ends with an exception: the transport is lost, or
\* the read timeout the caller passed expires with no response
ToolFails ==
  /\ pc \in {"q_wait", "s_wait"}
  /\ \/ /\ pending.fate = "lost"
        /\ Finish(IF pc = "q_wait" THEN "query" ELSE "calls", "raise", "TransportLost")
        /\ res' = [res EXCEPT ![mcp_session].state = "Closed"]
     \/ /\ pending.fate = "silent"
        /\ pending.timed
        /\ Finish(IF pc = "q_wait" THEN "query" ELSE "calls", "raise", "Timeout")
        /\ UNCHANGED res
  /\ pending' = NoCall
  /\ UNCHANGED <<restVars, opsDone, exit_stack, released, mcp_session, stdio, query,
                 mcp_tools, messages, i, final_response, modelCalls, toolLog, printed,
                 result, discoveries>>

-----------------------------------------------------------------------------
(* client-stdio.py 28-42: two tool calls, each with a read timeout of 5 s  *)

StdioCalls ==
  <<[name |-> "MyCalculator", arguments |-> [a |-> 1, b |-> 2]],
    [name |-> "MySecondCalculator", arguments |-> [a |-> 1]]>>

StartCalls ==
  /\ MayStart("calls")
  /\ pc' = "s_call"
  /\ opsDone' = opsDone + 1
  /\ query' = None
  /\ ResetQuery
  /\ prevOp' = outcome.op
  /\ UNCHANGED <<mode, tools_result, registry, registered, wireVars, mstep, mainExc, outcome, clientVars>>

\* the next session.call_tool(name, arguments, read_timeout_seconds=5 s) is
\* sent; i counts the calls sent
StdioCallTool ==
  /\ pc = "s_call"
  /\ i' = i + 1
  /\ \E f \in Fates :
       pending' = [active |-> TRUE, k |-> i', fate |-> f, timed |-> TRUE]
  /\ toolLog' = Append(toolLog, [id |-> i', name |-> StdioCalls[i'].name,
                                 arguments |-> StdioCalls[i'].arguments])
  /\ pc' = "s_wait"
  /\ UNCHANGED <<restVars, mstep, mainExc, opsDone, outcome, clientVars, query,
                 mcp_tools, messages, final_response, modelCalls, printed, result,
                 discoveries>>

\* the result arrives and its first text block is printed
StdioResponse ==
  /\ pc = "s_wait"
  /\ pending.fate = "respond"
  /\ result' = ServerInvoke(Sent.name, Sent.arguments)
  /\ printed' = Append(printed, ResultText(result'))
  /\ pending' = NoCall
  /\ IF i < Len(StdioCalls)
       THEN /\ pc' = "s_call"
            /\ UNCHANGED <<mstep, mainExc, outcome>>
       ELSE Finish("calls", "return", None)
  /\ UNCHANGED <<restVars, opsDone, clientVars, query, mcp_tools, messages, i,
                 final_response, modelCalls, toolLog, discoveries>>

-----------------------------------------------------------------------------

Next ==
  \/ StartConnect
  \/ EnterTransport
  \/ EnterSession
  \/ Initialize
  \/ ListToolsAtConnect
  \/ Cleanup
  \/ StartQuery
  \/ GetMcpTools
  \/ ModelCall1
  \/ CallTool
  \/ ToolResponse
  \/ ToolFails
  \/ ModelCall2
  \/ StartCalls
  \/ StdioCallTool
  \/ StdioResponse

Spec == Init /\ [][Next]_vars

\* every await of the code is resumed when what it waits for has happened
FairSpec == Spec /\ WF_vars(Next)

-----------------------------------------------------------------------------
(* Properties of process_query *)

\* process_query has ended and nothing has been started since
QueryEnded == pc = "idle" /\ outcome.op = "query"

\* the first response has arrived (the conversation holds it)
Answered == Len(messages) >= 2

\* the tool_calls of the first assistant message, <<>> before it has arrived
Requests == IF Answered THEN tool_calls ELSE <<>>

\* the tool-role messages of a conversation, in order
ToolMessagesOf(conv) == SelectSeq(conv, LAMBDA m : m.role = "tool")

\* the second request to the model service has been made
SecondCallMade == Len(modelCalls) = 2

\* C1: when the second model call is made after a first assistant message
\* with N >= 1 tool-call requests, the conversation passed to it holds
\* exactly N tool-role messages, the k-th answering the k-th request's id,
\* and exactly N call_tool requests were sent, one per request.
C1_EveryRequestAnsweredOnce ==
  SecondCallMade =>
    LET conv == modelCalls[2].messages
        N == Len(Requests)
    IN  /\ N >= 1
        /\ Len(ToolMessagesOf(conv)) = N
        /\ Len(conv) = 2 + N
        /\ \A k \in 1..N : /\ conv[2 + k].role = "tool"
                           /\ conv[2 + k].tool_call_id = Requests[k].id
        /\ Len(toolLog) = N
        /\ \A k \in 1..N : toolLog[k].id = Requests[k].id

C1_Witness ==
  /\ SecondCallMade
  /\ Len(Requests) = MaxCalls
  /\ Len(ToolMessagesOf(modelCalls[2].messages)) = MaxCalls

\* C2: tool calls are sent one at a time in the order of the assistant
\* message: the k-th request sent is the k-th tool call, a request is sent
\* only when every earlier one has its tool message, and the tool messages
\* stand in the same order, each tagged with the id of its request.
C2_SequentialInOrder ==
  (mode # "stdio" /\ Answered) =>
    LET sent == Len(toolLog)
        got == Len(messages) - 2
    IN  /\ sent <= Len(Requests)
        /\ \A k \in 1..sent : /\ toolLog[k].id = Requests[k].id
                              /\ toolLog[k].name = Requests[k].name
        /\ got = IF pending.active THEN sent - 1 ELSE
                 IF QueryEnded /\ outcome.val \in {"TransportLost", "Timeout"}
                   THEN sent - 1 ELSE sent
        /\ pending.active => pending.k = sent
        /\ \A k \in 1..got : /\ messages[2 + k].role = "tool"
                             /\ messages[2 + k].tool_call_id = Requests[k].id

C2_Witness ==
  /\ Answered
  /\ pending.active
  /\ Len(toolLog) = 2
  /\ Len(messages) = 3
  /\ Requests[1].id = 2

\* C4: one answer makes at most two model calls, the first with tool_choice
\* "auto", the second with "none" and only after a first response with tool
\* calls; once the second call is made the answer is over, nothing is in
\* flight and only the first message's tool calls were ever sent, whatever
\* tool calls the second response carries.
C4_OneToolRound ==
  /\ Len(modelCalls) <= 2
  /\ Len(modelCalls) >= 1 => modelCalls[1].tool_choice = "auto"
  /\ SecondCallMade =>
       /\ modelCalls[2].tool_choice = "none"
       /\ Requests # <<>>
       /\ QueryEnded
       /\ ~pending.active
       /\ Len(toolLog) = Len(Requests)
       /\ Len(messages) = 2 + Len(Requests)

C4_Witness ==
  /\ SecondCallMade
  /\ final_response # NoMessage
  /\ final_response.tool_calls # <<>>
  /\ outcome.kind = "return"

\* C5: an answer whose first assistant message carries no tool calls
\* returns that message's content after one model call and no tool call.
C5_DirectAnswer ==
  (QueryEnded /\ Answered /\ Requests = <<>>) =>
    /\ outcome.kind = "return"
    /\ outcome.val = messages[2].content
    /\ Len(modelCalls) = 1
    /\ toolLog = <<>>
    /\ Len(messages) = 2

C5_Witness ==
  /\ QueryEnded
  /\ Answered
  /\ Requests = <<>>
  /\ outcome.val = "final text"

\* C3 (as claimed): an answer whose first message asks for tool calls, and
\* which neither lost the transport nor failed in the model service, does
\* not raise: every tool call, failed or not, has its tool message and the
\* second model call is made with that conversation.
C3_ToolFailuresFolded ==
  (/\ QueryEnded
   /\ Requests # <<>>
   /\ ~(outcome.kind = "raise" /\ outcome.val \in {"TransportLost", "ModelCallFailed"}))
  => /\ outcome.kind = "return"
     /\ SecondCallMade
     /\ Len(ToolMessagesOf(modelCalls[2].messages)) = Len(Requests)

\* C6 (as claimed): a tool call in flight always ends, by its response or
\* by its timeout, so a started process_query always ends.
C6_ToolCallsEnd == (pc = "q_wait") ~> (pc = "idle")

NotReadyError == IF mcp_session = 0 THEN "SessionNotInitialized" ELSE "NotReady"

\* C7: process_query on a session that is not Ready (none, handshake not
\* acknowledged or failed, closed) ends at its first step with the
\* not-ready error, with no model call and no tool call made; model calls
\* and tool calls are made only on a Ready session.
C7_NotReadyFailsFirst ==
  /\ [](pc \in {"q_model1", "q_loop", "q_wait", "q_model2"}
          => SessionState(mcp_session) = "Ready")
  /\ [](pc = "q_tools" => modelCalls = <<>> /\ toolLog = <<>>)
  /\ [][(pc = "q_tools" /\ SessionState(mcp_session) # "Ready")
          => /\ pc' = "idle"
             /\ outcome' = [op |-> "query", kind |-> "raise", val |-> NotReadyError]
             /\ modelCalls' = <<>>
             /\ toolLog' = <<>>]_vars

C7_Witness ==
  /\ QueryEnded
  /\ outcome.val = "NotReady"
  /\ SessionState(mcp_session) = "Closed"
  /\ modelCalls = <<>>

\* C8: when main() (or the stdio script) has terminated, by return or by an
\* exception of connect or of the query, every transport and session it
\* acquired is released, the last acquired first, and none is left on the
\* exit stack.
C8_ReleasedOnEveryExit ==
  (mode # "api" /\ mstep = "exit") =>
    /\ exit_stack = <<>>
    /\ \A k \in 1..Len(res) : res[k].state \in {"closed", "Closed"}
    /\ Len(released) = Len(res)
    /\ \A k \in 1..Len(res) : released[k] = Len(res) + 1 - k

C8_Witness ==
  /\ mode = "main"
  /\ mstep = "exit"
  /\ mainExc = "JSONDecodeError"
  /\ released = <<2, 1>>

\* C9: a failure of the model service in either call leaves process_query
\* as ModelCallFailed; no request is made after a failed one, each of the
\* two requests is made at most once, and after a failed first request no
\* tool call is sent.
C9_ModelFailureSurfaces ==
  /\ Len(modelCalls) <= 2
  /\ SecondCallMade => modelCalls[1].tool_choice # modelCalls[2].tool_choice
  /\ \A k \in 1..Len(modelCalls) :
       modelCalls[k].failed =>
         /\ k = Len(modelCalls)
         /\ QueryEnded
         /\ outcome.kind = "raise"
         /\ outcome.val = "ModelCallFailed"
         /\ k = 1 => toolLog = <<>> /\ messages = <<>>

C9_Witness ==
  /\ SecondCallMade
  /\ modelCalls[2].failed
  /\ outcome.val = "ModelCallFailed"

\* the registry's text for the two calls whose arguments fit the signature
ExpectedText(req) == IF req.name = "MyCalculator" THEN "3" ELSE "4"

\* a registered tool asked for with exactly the arguments of its signature
FitsSignature(req) ==
  \/ req.name = "MyCalculator" /\ req.arguments = JsonOfAB(1, 2)
  \/ req.name = "MySecondCalculator" /\ req.arguments = JsonOfA(1)

\* C10: after a first assistant message with one tool call of a registered
\* tool, the second model call receives [user query, assistant message,
\* tool message] where the tool message has the request's id and the
\* registry's result for its arguments, and the answer returned is the
\* second response's content.
C10_OneCallRoundTrip ==
  (SecondCallMade /\ Len(Requests) = 1 /\ FitsSignature(Requests[1])) =>
    /\ modelCalls[1].messages = <<UserMessage(query)>>
    /\ modelCalls[2].messages =
         <<UserMessage(query), messages[2],
           ToolMessage(Requests[1].id, ExpectedText(Requests[1]))>>
    /\ outcome.kind = "return" => /\ final_response # NoMessage
                                  /\ outcome.val = final_response.content

C10_Witness ==
  /\ SecondCallMade
  /\ Len(Requests) = 1
  /\ Requests[1].name = "MyCalculator"
  /\ modelCalls[2].messages[3].content = "3"
  /\ messages[2].content = None
  /\ outcome.kind = "return"
  /\ outcome.val = "final text"


\* the tool names of the last list_tools() result of this answer
ListedNames == { mcp_tools[k].function.name : k \in 1..Len(mcp_tools) }

\* C11: a tool call whose name is not in the last list_tools() result is
\* sent under that name and comes back as the unknown-tool error: its tool
\* message carries the error text, never the output of a registered handler,
\* and no such call is skipped.
C11_UnknownToolIsAnError ==
  (mode # "stdio" /\ Answered) =>
    \A k \in 1..(Len(messages) - 2) :
      Requests[k].name \notin ListedNames =>
        /\ Len(toolLog) >= k
        /\ toolLog[k].name = Requests[k].name
        /\ messages[2 + k].role = "tool"
        /\ messages[2 + k].tool_call_id = Requests[k].id
        /\ messages[2 + k].content = "Unknown tool"

C11_Witness ==
  /\ Answered
  /\ Len(messages) = 4
  /\ Requests[1].name = "NoSuchTool"
  /\ messages[3].content = "Unknown tool"
  /\ messages[4].content = "3"


-----------------------------------------------------------------------------
(* Unit runs: one step of the client from a state with drawn inputs *)

\* descriptors a server may report: any name, the description present,
\* empty or absent, any schema
Descriptors ==
  { [name |-> n, description |-> d, inputSchema |-> p] :
      n \in AskedNames, d \in {None, "", "A calculator tool"}, p \in {{"a"}, {"a", "b"}} }

DescriptorLists == UNION { [1..n -> Descriptors] : n \in 0..MaxTools }

\* a client connected to a server whose registry is reg, inside
\* process_query(q) at position p
Connected(reg, q, p) ==
  /\ mode = "unit"
  /\ mstep = "start"
  /\ mainExc = None
  /\ opsDone = 2
  /\ pc = p
  /\ outcome = [op |-> "connect", kind |-> "return", val |-> None]
  /\ prevOp = "connect"
  /\ res = <<[kind |-> "transport", state |-> "open"],
             [kind |-> "session", state |-> "Ready"]>>
  /\ exit_stack = <<1, 2>>
  /\ released = <<>>
  /\ mcp_session = 2
  /\ stdio = 1
  /\ registry = reg
  /\ registered = <<>>
  /\ WireInit
  /\ query = q
  /\ printed = <<>>
  /\ final_response = NoMessage
  /\ result = NoResult

\* get_mcp_tools is about to run against a drawn registry
AdapterInit ==
  \E reg \in DescriptorLists :
    /\ Connected(reg, MainQuery, "q_tools")
    /\ tools_result = reg
    /\ discoveries = 0
    /\ mcp_tools = <<>>
    /\ messages = <<>>
    /\ i = 0
    /\ pending = NoCall
    /\ modelCalls = <<>>
    /\ toolLog = <<>>

\* the loop waits for the result of a drawn call of a registered tool
HandlerInit ==
  \E name \in ToolNames, text \in JsonTexts :
    LET call == [id |-> 1, name |-> name, arguments |-> text]
        m == [role |-> "assistant", content |-> None, tool_call_id |-> 0,
              tool_calls |-> <<call>>]
    IN  /\ Connected(ServerListTools, MainQuery, "q_wait")
        /\ tools_result = ServerListTools
        /\ discoveries = 1
        /\ mcp_tools = AdaptTools(ServerListTools)
        /\ messages = <<UserMessage(MainQuery), m>>
        /\ i = 1
        /\ pending = [active |-> TRUE, k |-> 1, fate |-> "respond", timed |-> FALSE]
        /\ modelCalls = <<ModelRequest(<<UserMessage(MainQuery)>>, mcp_tools, "auto", FALSE)>>
        /\ toolLog = <<[id |-> 1, name |-> name, arguments |-> JsonLoads(text)]>>

UnitInit == AdapterInit \/ HandlerInit

UnitNext ==
  \/ GetMcpTools
  \/ ToolResponse

UnitSpec == UnitInit /\ [][UnitNext]_vars

\* the decimal numerals, written out
DecimalText ==
  <<"0", "1", "2", "3", "4", "5", "6", "7", "8", "9", "10", "11", "12", "13",
    "14", "15", "16", "17", "18", "19", "20", "21", "22", "23", "24", "25">>

\* the call sent has exactly the arguments of its tool's signature
ExactArguments == DOMAIN toolLog[1].arguments = ToolParams(toolLog[1].name)

\* C12: the result of a registered tool called with the arguments of its
\* signature is one text block holding the decimal text of a + b
\* (MyCalculator) or of a + 3 (MySecondCalculator), with isError false, for
\* all a, b in 0..MaxArg.
C12_HandlerOutputAsText ==
  (mode = "unit" /\ toolLog # <<>> /\ pc # "q_wait" /\ ExactArguments) =>
    LET args == toolLog[1].arguments
        sum == IF toolLog[1].name = "MyCalculator" THEN args.a + args.b ELSE args.a + 3
    IN  /\ result = [content |-> <<[type |-> "text", text |-> DecimalText[sum + 1]]>>,
                     isError |-> FALSE]
        /\ messages[3].content = DecimalText[sum + 1]

C12_Witness ==
  /\ mode = "unit"
  /\ pc = "q_model2"
  /\ toolLog[1] = [id |-> 1, name |-> "MyCalculator", arguments |-> [a |-> 9, b |-> 9]]
  /\ result.content[1].text = "18"


-----------------------------------------------------------------------------
(* Closing and reconnecting *)

Live(k) == res[k].state \notin {"closed", "Closed"}

LiveTransports == { k \in 1..Len(res) : res[k].kind = "transport" /\ Live(k) }

Sessions == { k \in 1..Len(res) : res[k].kind = "session" }

\* C13: cleanup is legal from any state and idempotent: whenever a call of
\* cleanup has returned, whatever the client did before (nothing, a failed
\* or a successful connect, an earlier cleanup), it has raised nothing, the
\* session is Closed, every transport is released and nothing is left to
\* release.
C13_CloseIdempotent ==
  (pc = "idle" /\ outcome.op = "cleanup") =>
    /\ outcome.kind = "return"
    /\ SessionState(mcp_session) = "Closed"
    /\ LiveTransports = {}
    /\ exit_stack = <<>>

\* C14: one client never owns two live transports, and its session state
\* only moves forward: no second session is started after the first has
\* been started, has failed its handshake or has been closed.
C14_SingleTransportForwardOnly ==
  /\ Cardinality(LiveTransports) <= 1
  /\ Cardinality(Sessions) <= 1


-----------------------------------------------------------------------------
(* Error results and the conversation *)

IsPrefix(s, t) == Len(s) <= Len(t) /\ SubSeq(t, 1, Len(s)) = s

\* C15: a result that arrives for a tool call, isError true or false alike,
\* raises nothing: its first text block is appended as the tool-role
\* message of that request's id, the loop goes on to the next tool call
\* when there is one and to the second model call when there is none.
C15_ErrorResultIsData ==
  [][(pc = "q_wait" /\ pending.fate = "respond") =>
       /\ outcome' = outcome
       /\ Len(messages') = Len(messages) + 1
       /\ IsPrefix(messages, messages')
       /\ messages'[Len(messages')].role = "tool"
       /\ messages'[Len(messages')].tool_call_id = Requests[i].id
       /\ messages'[Len(messages')].content = result'.content[1].text
       /\ IF i < Len(Requests)
            THEN pc' = "q_loop" /\ i' = i + 1
            ELSE pc' = "q_model2"]_vars

\* an error result for the first of two requests, the second one called and
\* the answer of the second model call returned
C15_Witness ==
  /\ QueryEnded
  /\ outcome.kind = "return"
  /\ SecondCallMade
  /\ Len(toolLog) = 2
  /\ toolLog[1].name = "MyCalculator"
  /\ messages[3].content = "Invalid arguments"
  /\ messages[4].content = "4"
  /\ ~result.isError

\* C16: inside process_query the conversation only grows at its end: every
\* step leaves the earlier messages in place, and the conversation of the
\* second model call is the [user query] conversation of the first one, the
\* assistant message, then tool-role messages only.
C16_AppendOnly ==
  /\ [][(pc # "idle" /\ pc' # "idle") => IsPrefix(messages, messages')]_vars
  /\ [](SecondCallMade =>
          /\ modelCalls[1].messages = <<UserMessage(query)>>
          /\ IsPrefix(modelCalls[1].messages, modelCalls[2].messages)
          /\ IsPrefix(SubSeq(messages, 1, 2), modelCalls[2].messages)
          /\ modelCalls[2].messages[2].role = "assistant"
          /\ modelCalls[2].messages[2].tool_calls # <<>>
          /\ \A k \in 3..Len(modelCalls[2].messages) :
               modelCalls[2].messages[k].role = "tool")

C16_Witness ==
  /\ SecondCallMade
  /\ Len(modelCalls[2].messages) = 4
  /\ modelCalls[2].messages[3].content = "3"
  /\ modelCalls[2].messages[4].content = "4"


-----------------------------------------------------------------------------
(* The tool adapter *)

\* get_mcp_tools has returned its list
Adapted == mode = "unit" /\ toolLog = <<>> /\ pc = "q_model1"

\* C17: for every descriptor list the session reports, get_mcp_tools
\* returns a list of the same length and order whose k-th entry is a
\* "function" with the k-th descriptor's name, its description or "" when
\* absent, and its inputSchema as parameters, and nothing else; the step
\* changes neither the client's resources nor the registry.
C17_AdapterOneToOne ==
  /\ [](Adapted =>
          /\ tools_result = registry
          /\ Len(mcp_tools) = Len(registry)
          /\ \A k \in 1..Len(registry) :
               /\ DOMAIN mcp_tools[k] = {"type", "function"}
               /\ mcp_tools[k].type = "function"
               /\ DOMAIN mcp_tools[k].function = {"name", "description", "parameters"}
               /\ mcp_tools[k].function.name = registry[k].name
               /\ mcp_tools[k].function.description =
                    (IF registry[k].description = None THEN "" ELSE registry[k].description)
               /\ mcp_tools[k].function.parameters = registry[k].inputSchema)
  /\ [][pc = "q_tools" => (clientVars' = clientVars /\ registry' = registry)]_vars

\* two descriptors in an order that is not alphabetical, the first of an
\* unregistered name and without description
C17_Witness ==
  /\ Adapted
  /\ Len(registry) = 2
  /\ registry[1].name = "NoSuchTool"
  /\ registry[1].description = None
  /\ registry[2].name = "MyCalculator"
  /\ mcp_tools[1].function.description = ""
  /\ mcp_tools[2].function.description = "A calculator tool"


-----------------------------------------------------------------------------
(* A connected client answering queries while the server's registry changes *)

\* a tool the server may come to register while it runs; the model service
\* never asks for it
ExtraTool ==
  [name |-> "MyThirdCalculator", description |-> None, inputSchema |-> {"a", "b"}]

\* the registry of the running server changes: one more tool is registered
RegisterTool ==
  /\ stdio # 0
  /\ res[stdio].state = "open"
  /\ registry = ServerListTools
  /\ registry' = Append(registry, ExtraTool)
  /\ registered' = Append(registered, [ops |-> opsDone, calls |-> Len(modelCalls)])
  /\ UNCHANGED <<mode, tools_result, prevOp, mstep, mainExc, opsDone, pc, outcome,
                 clientVars, queryVars, wireVars>>

\* connect_to_server after the handshake, about to list the tools
DriftInit ==
  /\ mode = "api"
  /\ mstep = "start"
  /\ mainExc = None
  /\ opsDone = 1
  /\ pc = "c_list"
  /\ outcome = NoOutcome
  /\ prevOp = "none"
  /\ res = <<[kind |-> "transport", state |-> "open"],
             [kind |-> "session", state |-> "Ready"]>>
  /\ exit_stack = <<1, 2>>
  /\ released = <<>>
  /\ mcp_session = 2
  /\ stdio = 1
  /\ query = None
  /\ mcp_tools = <<>>
  /\ messages = <<>>
  /\ i = 0
  /\ pending = NoCall
  /\ final_response = NoMessage
  /\ modelCalls = <<>>
  /\ toolLog = <<>>
  /\ printed = <<>>
  /\ result = NoResult
  /\ discoveries = 0
  /\ tools_result = <<>>
  /\ registry = ServerListTools
  /\ registered = <<>>
  /\ WireInit

DriftNext ==
  \/ ListToolsAtConnect
  \/ StartQuery
  \/ GetMcpTools
  \/ ModelCall1
  \/ CallTool
  \/ ToolResponse
  \/ ToolFails
  \/ ModelCall2
  \/ RegisterTool

DriftSpec == DriftInit /\ [][DriftNext]_vars

\* the names of a list of descriptors or of adapted tools, in order
DescriptorNames(tools) == [k \in 1..Len(tools) |-> tools[k].name]
SchemaNames(tools) == [k \in 1..Len(tools) |-> tools[k].function.name]

\* C18: inside one process_query the tools are listed exactly once, before
\* the first model call; the list then fetched is the registry of that
\* moment (so each process_query sees a fresh one), and both model calls
\* carry the same schemas whatever the registry does in between.
C18_OneDiscoveryPerTurn ==
  /\ [](pc \in {"q_model1", "q_loop", "q_wait", "q_model2"} => discoveries = 1)
  /\ [](modelCalls # <<>> => discoveries = 1)
  /\ [](SecondCallMade => modelCalls[2].tools = modelCalls[1].tools)
  /\ [][(pc = "q_tools" /\ pc' = "q_model1")
          => SchemaNames(mcp_tools') = DescriptorNames(registry)]_vars
  /\ [][(pc = "q_model1" /\ modelCalls' # modelCalls)
          => modelCalls'[1].tools = mcp_tools]_vars

\* the registry changed between the first and the second model call of the
\* first query, and the second call carried the two schemas of the first
C18_Witness ==
  /\ SecondCallMade
  /\ opsDone = 2
  /\ registered = <<[ops |-> 2, calls |-> 1]>>
  /\ Len(registry) = 3
  /\ SchemaNames(modelCalls[2].tools) = <<"MyCalculator", "MySecondCalculator">>


\* a list_tools request is answered in this step
Discovery == discoveries' = discoveries + 1

\* C19: a list_tools request changes neither the registry nor the session
\* or anything else the client holds; on a Ready session it returns the
\* registered descriptors, so two successive requests with no registry
\* change in between (connect_to_server, then get_mcp_tools) return equal
\* lists.
C19_DiscoveryIdempotent ==
  [][Discovery =>
       /\ registry' = registry
       /\ clientVars' = clientVars
       /\ SessionState(mcp_session) = "Ready" =>
            /\ tools_result' = registry
            /\ (tools_result # <<>> /\ (registered = <<>> \/ tools_result = registry))
                 => tools_result' = tools_result]_vars

\* get_mcp_tools has listed the tools right after connect_to_server did,
\* the registry unchanged: the same two descriptors
C19_Witness ==
  /\ pc = "q_model1"
  /\ prevOp = "connect"
  /\ registered = <<>>
  /\ discoveries = 1
  /\ DescriptorNames(tools_result) = <<"MyCalculator", "MySecondCalculator">>


-----------------------------------------------------------------------------
(* The session's wire with several call_tool requests pending at once *)

\* call_tool sends its request under a fresh correlation id and waits
WireSend(c) ==
  /\ SessionState(mcp_session) = "Ready"
  /\ callers[c].state # "waiting"
  /\ nextId <= MaxRequests
  /\ \E k \in 1..Len(StdioCalls) :
       LET request == [id |-> nextId, name |-> StdioCalls[k].name,
                       arguments |-> StdioCalls[k].arguments]
       IN  /\ callers' = [callers EXCEPT ![c] =
                            [state |-> "waiting", id |-> nextId, name |-> request.name,
                             arguments |-> request.arguments, response |-> NoResponse]]
           /\ served' = served \cup {request}
  /\ waiting' = waiting \cup {nextId}
  /\ nextId' = nextId + 1
  /\ UNCHANGED <<progVars, wire, discarded>>

\* the server answers one of the requests it holds, in any order
ServerAnswers ==
  /\ \E r \in served :
       /\ served' = served \ {r}
       /\ wire' = wire \cup {[id |-> r.id, result |-> ServerInvoke(r.name, r.arguments)]}
  /\ UNCHANGED <<progVars, nextId, callers, waiting, discarded>>

\* the response handed to the caller whose request is the oldest pending
ReceiversByArrival(m) ==
  { c \in Callers : /\ callers[c].state = "waiting"
                    /\ \A d \in Callers :
                         callers[d].state = "waiting" => callers[c].id <= callers[d].id }

\* the callers a response is handed to: the one waiting for its id
Receivers(m) ==
  { c \in Callers : callers[c].state = "waiting" /\ callers[c].id = m.id }

\* a response arrives: its caller's call_tool returns it, or nobody waits
\* for it and it is dropped
WireDeliver ==
  /\ \E m \in wire :
       /\ wire' = wire \ {m}
       /\ IF Receivers(m) # {}
            THEN /\ callers' = [c \in Callers |->
                                  IF c \in Receivers(m)
                                    THEN [callers[c] EXCEPT !.state = "returned",
                                                            !.response = m]
                                    ELSE callers[c]]
                 /\ waiting' = waiting \ { callers[c].id : c \in Receivers(m) }
                 /\ UNCHANGED discarded
            ELSE /\ discarded' = discarded \cup {m}
                 /\ UNCHANGED <<callers, waiting>>
  /\ UNCHANGED <<progVars, nextId, served>>

\* the read timeout of a pending call_tool expires: the call fails with
\* Timeout and its request is abandoned
WireTimeout(c) ==
  /\ callers[c].state = "waiting"
  /\ callers' = [callers EXCEPT ![c].state = "timedout"]
  /\ waiting' = waiting \ {callers[c].id}
  /\ UNCHANGED <<progVars, nextId, served, wire, discarded>>

SessionNext ==
  \/ \E c \in Callers : WireSend(c)
  \/ ServerAnswers
  \/ WireDeliver
  \/ \E c \in Callers : WireTimeout(c)

SessionSpec == DriftInit /\ [][SessionNext]_vars

\* C20: under every interleaving of pending calls, answers and arrivals, a
\* call_tool that has returned holds the response carrying its own request's
\* id, which is the registry's result for its own arguments; an arriving
\* response whose id nobody waits for, such as the late response to a
\* request abandoned on Timeout, is dropped and changes no caller.
C20_MatchedById ==
  /\ [](\A c \in Callers :
          callers[c].state = "returned" =>
            /\ callers[c].response.id = callers[c].id
            /\ callers[c].response.result =
                 ServerInvoke(callers[c].name, callers[c].arguments))
  /\ [](\A c \in Callers : (callers[c].state = "waiting") <=> (callers[c].id \in waiting))
  /\ [][\A m \in wire \ wire' :
          m.id \notin waiting => (callers' = callers /\ m \in discarded')]_vars

\* caller 1 abandoned request 1 and then sent request 3; the responses to 2
\* and 3 were returned to their callers and the late response to 1, for
\* different arguments, was dropped
C20_Witness ==
  /\ callers[1].state = "returned"
  /\ callers[1].id = 3
  /\ callers[1].name = "MySecondCalculator"
  /\ callers[2].state = "returned"
  /\ callers[2].id = 2
  /\ \E m \in discarded : m.id = 1 /\ m.result.content[1].text = "3"

====
